---- MODULE Spec2Model ----
(***************************************************************************)
(* go-estimate: the linear system models (sim.BaseModel, model.Fall), the  *)
(* initial condition holder (InitCond) and the samplers of package rnd     *)
(* (WithCovN, RouletteDrawN).                                              *)
(*                                                                         *)
(* Matrices live on a heap of objects, because the Go code passes and      *)
(* stores *mat.Dense pointers: a model holds the locations of its A, B, C, *)
(* D, and a caller holds the locations of the arguments it passed and of   *)
(* the values the accessors returned.  A panic of the Go runtime or of     *)
(* gonum (nil dereference, ErrShape, make with a negative length) is an    *)
(* outcome of a call, recorded in the call's result.                       *)
(***************************************************************************)
EXTENDS Integers, Sequences, FiniteSets, TLC

\* ------------------------------------------------------------------ bounds
\* Largest row/column count of a matrix and largest length of a vector.
MaxDim == 2
\* Matrix contents are drawn from the family Mat(r, c, s), s in 0..MaxSeed.
MaxSeed == 1
\* Number of accessor results the caller keeps hold of.
MaxHeld == 2
\* Number of in-place writes the caller makes to matrices it can reach.
MaxMut == 2
\* RouletteDrawN: longest weight vector, largest weight, largest draw count.
MaxLenP == 3
MaxW == 1
MaxN == 2
\* A draw of distuv.UnitUniform is k / Grid for some k in 0..Grid-1.
Grid == 4

\* ------------------------------------------------------------------ values
Nil == 0

\* A dense matrix value (mat.Dense): r rows, c columns, d its rows.
Mat(r, c, s) ==
  [r |-> r, c |-> c,
   d |-> [i \in 1..r |-> [j \in 1..c |-> 1 + ((s + i + 2 * j) % 3)]]]

\* The zero value &mat.Dense{}: an empty (0 x 0) matrix.
EmptyDense == [r |-> 0, c |-> 0, d |-> << >>]

\* A heap location that holds no object.
NoObj == [r |-> -1, c |-> -1, d |-> << >>]

\* A mat.Vector argument: the nil interface, or a vector with elements v.
NilVec == [nil |-> TRUE, v |-> << >>]
V(s) == [nil |-> FALSE, v |-> s]

Vec(l, s) == [i \in 1..l |-> 1 + ((i + s) % 2)]

\* The vectors a caller passes: every length 0..MaxDim, two contents each.
VecIn == {V(Vec(l, s)) : l \in 0..MaxDim, s \in 0..1}
OptVecIn == VecIn \cup {NilVec}

VARIABLES
  heap,   \* location -> matrix value, or NoObj
  mdl,    \* the model: its kind and the locations of its A, B, C, D
  ic,     \* the InitCond: the locations of its state and cov
  held,   \* accessor results the caller holds: [acc, loc]
  ctor,   \* the values of the model's matrices when it was constructed
  nmut,   \* number of in-place writes the caller has made
  ret,    \* the outcome of the last model call, until the caller takes it
  rnd     \* the outcome of the last call into package rnd

vars == <<heap, mdl, ic, held, ctor, nmut, ret, rnd>>

\* The caller's arguments to NewBaseModel / NewFall (A, B, C, D) and to
\* NewInitCond (state, cov) live at locations 1..6; what the code allocates
\* lives above them.
LocA == 1
LocB == 2
LocC == 3
LocD == 4
LocState == 5
LocCov == 6
ArgLoc == 1..6
LocIcState == 7
LocIcCov == 8
DynLoc == 9..(8 + MaxHeld)
Loc == ArgLoc \cup {LocIcState, LocIcCov} \cup DynLoc

NoModel == [kind |-> "none", A |-> Nil, B |-> Nil, C |-> Nil, D |-> Nil]
NoInitCond == [state |-> Nil, cov |-> Nil]
NoRet == [op |-> "none", x |-> NilVec, u |-> NilVec, q |-> NilVec,
          val |-> NilVec, err |-> "", panic |-> FALSE]
NoRnd == [op |-> "none", p |-> NilVec, cov |-> Nil, n |-> 0, draws |-> << >>,
          idx |-> NilVec, shape |-> << >>, err |-> "", panic |-> FALSE,
          factorized |-> FALSE, normals |-> 0]

\* ------------------------------------------------------------ gonum mat
RECURSIVE Dot(_, _, _)
Dot(row, v, k) == IF k = 0 THEN 0 ELSE row[k] * v[k] + Dot(row, v, k - 1)

\* The outcome of a computation on a fresh Dense: it panicked, or holds the
\* column v.
Panicked == [ok |-> FALSE, v |-> << >>]
Col(v) == [ok |-> TRUE, v |-> v]

\* out.Mul(M, x) for a matrix M and a vector x: gonum panics with ErrShape
\* unless M has as many columns as x has rows.
Mul(M, x) ==
  IF M.c # Len(x) THEN Panicked
  ELSE Col([i \in 1..M.r |-> Dot(M.d[i], x, M.c)])

\* out.Add(a, b) on columns: gonum panics with ErrShape unless the
\* dimensions agree.
Add(a, b) ==
  IF ~a.ok \/ ~b.ok THEN Panicked
  ELSE IF Len(a.v) # Len(b.v) THEN Panicked
  ELSE Col([i \in 1..Len(a.v) |-> a.v[i] + b.v[i]])

\* A call's outcome: a returned vector, a returned error, or a panic.
Returned(o) ==
  IF o.ok THEN [val |-> V(o.v), err |-> "", panic |-> FALSE]
  ELSE [val |-> NilVec, err |-> "", panic |-> TRUE]
Failed(msg) == [val |-> NilVec, err |-> msg, panic |-> FALSE]
Panic == [val |-> NilVec, err |-> "", panic |-> TRUE]

\* ------------------------------------------------------------ sim.BaseModel
\* (b *BaseModel) Dims: the columns of A and the rows of C.
BaseModelDims(h, m) == <<h[m.A].c, h[m.C].r>>

BaseModelPropagate(h, m, x, u, q) ==
  LET in  == BaseModelDims(h, m)[1]
      out == BaseModelDims(h, m)[2]
  IN  IF ~u.nil /\ Len(u.v) # out THEN Failed("Invalid input vector")
      ELSE IF Len(x.v) # in THEN Failed("Invalid state vector")
      ELSE LET o1 == Mul(h[m.A], x.v)
               o2 == IF ~u.nil /\ m.B # Nil
                     THEN Add(o1, Mul(h[m.B], u.v)) ELSE o1
               o3 == IF ~q.nil /\ Len(q.v) = in
                     THEN Add(o2, Col(q.v)) ELSE o2
           IN  Returned(o3)

BaseModelObserve(h, m, x, u, r) ==
  LET in  == BaseModelDims(h, m)[1]
      out == BaseModelDims(h, m)[2]
  IN  IF ~u.nil /\ Len(u.v) # out THEN Failed("Invalid input vector")
      ELSE IF Len(x.v) # in THEN Failed("Invalid state vector")
      ELSE LET o1 == Mul(h[m.C], x.v)
               o2 == IF ~u.nil /\ m.D # Nil
                     THEN Add(o1, Mul(h[m.D], u.v)) ELSE o1
               o3 == IF ~r.nil /\ Len(r.v) = out
                     THEN Add(o2, Col(r.v)) ELSE o2
           IN  Returned(o3)

\* ------------------------------------------------------------ model.Fall
\* (b *Fall) Dims: the columns of A and the rows of D.  It is called only
\* with D # Nil here: a nil D makes b.D.Dims() dereference nil.
FallDims(h, m) == <<h[m.A].c, h[m.D].r>>

\* Fall.Propagate calls u.Len() and b.B's methods without a nil check: a nil
\* u, B or D panics.
FallPropagate(h, m, x, u, q) ==
  IF m.D = Nil \/ u.nil THEN Panic
  ELSE
  LET in  == FallDims(h, m)[1]
      out == FallDims(h, m)[2]
  IN  IF Len(u.v) # out THEN Failed("Invalid input vector")
      ELSE IF Len(x.v) # in THEN Failed("Invalid state vector")
      ELSE IF m.B = Nil THEN Panic
      ELSE LET o1 == Mul(h[m.A], x.v)
               o2 == Add(o1, Mul(h[m.B], u.v))
               o3 == IF ~q.nil /\ Len(q.v) = in
                     THEN Add(o2, Col(q.v)) ELSE o2
           IN  Returned(o3)

FallObserve(h, m, x, u, r) ==
  IF m.D = Nil \/ u.nil THEN Panic
  ELSE
  LET in  == FallDims(h, m)[1]
      out == FallDims(h, m)[2]
  IN  IF Len(u.v) # out THEN Failed("Invalid input vector")
      ELSE IF Len(x.v) # in THEN Failed("Invalid state vector")
      ELSE LET o1 == Mul(h[m.C], x.v)
               o2 == Add(o1, Mul(h[m.D], u.v))
               o3 == IF ~r.nil /\ Len(r.v) = out
                     THEN Add(o2, Col(r.v)) ELSE o2
           IN  Returned(o3)

\* ------------------------------------------------------------ package rnd
\* floats.CumSum(cdf, p): cdf[i] = p[1] + ... + p[i].
RECURSIVE CumSumTo(_, _)
CumSumTo(p, i) == IF i = 0 THEN 0 ELSE p[i] + CumSumTo(p, i - 1)
CumSum(p) == [i \in 1..Len(p) |-> CumSumTo(p, i)]

\* The closure with >= in place of >.
Larger_AtLeast(cdf, k, i) == cdf[i + 1] * Grid >= k * cdf[Len(cdf)]

\* The closure handed to sort.Search: cdf[i] > val, for the 0-based index i
\* and val = (k / Grid) * cdf[len(cdf)-1], compared without dividing.
Larger(cdf, k, i) == cdf[i + 1] * Grid > k * cdf[Len(cdf)]

\* sort.Search(n, f): binary search over [i, j), as in the Go library.
RECURSIVE Search(_, _, _, _)
Search(cdf, k, i, j) ==
  IF i < j
  THEN LET h == (i + j) \div 2
       IN  IF ~Larger(cdf, k, h) THEN Search(cdf, k, h + 1, j)
           ELSE Search(cdf, k, i, h)
  ELSE i

\* RouletteDrawN with only the nil check: an empty p reaches make and
\* cdf[len(cdf)-1], which indexes out of range once the loop runs.
RouletteDrawN_NilOnly(p, n, ks) ==
  IF p.nil
  THEN [idx |-> NilVec, err |-> "Invalid probability weights", panic |-> FALSE]
  ELSE IF n < 0 \/ (Len(p.v) = 0 /\ n > 0)
  THEN [idx |-> NilVec, err |-> "", panic |-> TRUE]
  ELSE LET cdf == CumSum(p.v)
       IN  [idx |-> V([d \in 1..n |-> Search(cdf, ks[d], 0, Len(cdf))]),
            err |-> "", panic |-> FALSE]

\* RouletteDrawN(p, n) with the uniform draws ks (one per index drawn).
\* make([]int, n) panics when n is negative.
RouletteDrawN(p, n, ks) ==
  IF p.nil \/ Len(p.v) = 0
  THEN [idx |-> NilVec, err |-> "Invalid probability weights", panic |-> FALSE]
  ELSE IF n < 0 THEN [idx |-> NilVec, err |-> "", panic |-> TRUE]
  ELSE LET cdf == CumSum(p.v)
       IN  [idx |-> V([d \in 1..n |-> Search(cdf, ks[d], 0, Len(cdf))]),
            err |-> "", panic |-> FALSE]

\* WithCovN with the count check n <= 0: one sample goes on to the SVD.
WithCovN_AllowsOne(h, cov, n, ok) ==
  IF n <= 0
  THEN [shape |-> << >>, err |-> "Invalid number of samples requested",
        panic |-> FALSE, factorized |-> FALSE, normals |-> 0]
  ELSE IF cov = Nil
  THEN [shape |-> << >>, err |-> "", panic |-> TRUE,
        factorized |-> FALSE, normals |-> 0]
  ELSE IF ~ok
  THEN [shape |-> << >>, err |-> "SVD factorization failed", panic |-> FALSE,
        factorized |-> TRUE, normals |-> 0]
  ELSE [shape |-> <<h[cov].r, n>>, err |-> "", panic |-> FALSE,
        factorized |-> TRUE, normals |-> h[cov].r * n]

\* WithCovN(cov, n): the count is checked first; then the SVD of cov, whose
\* success ok the numerics decide; then rows*n normal draws.  The samples are
\* kept by their shape only.  A nil cov makes svd.Factorize dereference nil.
WithCovN(h, cov, n, ok) ==
  IF n <= 1
  THEN [shape |-> << >>, err |-> "Invalid number of samples requested",
        panic |-> FALSE, factorized |-> FALSE, normals |-> 0]
  ELSE IF cov = Nil
  THEN [shape |-> << >>, err |-> "", panic |-> TRUE,
        factorized |-> FALSE, normals |-> 0]
  ELSE IF ~ok
  THEN [shape |-> << >>, err |-> "SVD factorization failed", panic |-> FALSE,
        factorized |-> TRUE, normals |-> 0]
  ELSE [shape |-> <<h[cov].r, n>>, err |-> "", panic |-> FALSE,
        factorized |-> TRUE, normals |-> h[cov].r * n]

\* ------------------------------------------------------------ allocation
\* new(...) / mat.New...: a location that holds no object yet.
Alloc(h) == CHOOSE l \in DynLoc : h[l] = NoObj /\ \A k \in DynLoc : k < l => h[k] # NoObj
HasFree(h, k) == Cardinality({l \in DynLoc : h[l] = NoObj}) >= k

\* The matrices of model m as the heap h holds them (EmptyDense for a nil
\* pointer).
At(h, l) == IF l = Nil THEN EmptyDense ELSE h[l]
ModelMats(h, m) == [A |-> At(h, m.A), B |-> At(h, m.B), C |-> At(h, m.C), D |-> At(h, m.D)]

\* ------------------------------------------------------------ actions
Call(op, x, u, q, res) ==
  [op |-> op, x |-> x, u |-> u, q |-> q,
   val |-> res.val, err |-> res.err, panic |-> res.panic]

\* The pointers NewBaseModel / NewFall receive: B and D may be nil.
ArgPtrs(h, kind) ==
  [kind |-> kind, A |-> LocA,
   B |-> IF h[LocB] = NoObj THEN Nil ELSE LocB,
   C |-> LocC,
   D |-> IF h[LocD] = NoObj THEN Nil ELSE LocD]

\* NewBaseModel(A, B, C, D): stores the four pointers and returns a nil
\* error; nothing is checked and nothing is copied.
NewBaseModel ==
  /\ mdl.kind = "none" /\ ret.op = "none"
  /\ mdl' = ArgPtrs(heap, "sim")
  /\ ctor' = ModelMats(heap, mdl')
  /\ ret' = Call("create", NilVec, NilVec, NilVec, Failed(""))
  /\ UNCHANGED <<heap, ic, held, nmut, rnd>>

\* NewFall(A, B, C, D): as NewBaseModel.
NewFall ==
  /\ mdl.kind = "none" /\ ret.op = "none"
  /\ mdl' = ArgPtrs(heap, "fall")
  /\ ctor' = ModelMats(heap, mdl')
  /\ ret' = Call("create", NilVec, NilVec, NilVec, Failed(""))
  /\ UNCHANGED <<heap, ic, held, nmut, rnd>>

PropagateOn(X, U, Q) ==
  /\ mdl.kind # "none" /\ ret.op = "none"
  /\ \E x \in X, u \in U, q \in Q :
       ret' = Call("propagate", x, u, q,
                   IF mdl.kind = "sim" THEN BaseModelPropagate(heap, mdl, x, u, q)
                   ELSE FallPropagate(heap, mdl, x, u, q))
  /\ UNCHANGED <<heap, mdl, ic, held, ctor, nmut, rnd>>

ObserveOn(X, U, R) ==
  /\ mdl.kind # "none" /\ ret.op = "none"
  /\ \E x \in X, u \in U, r \in R :
       ret' = Call("observe", x, u, r,
                   IF mdl.kind = "sim" THEN BaseModelObserve(heap, mdl, x, u, r)
                   ELSE FallObserve(heap, mdl, x, u, r))
  /\ UNCHANGED <<heap, mdl, ic, held, ctor, nmut, rnd>>

Propagate == PropagateOn(VecIn, OptVecIn, OptVecIn)
Observe == ObserveOn(VecIn, OptVecIn, OptVecIn)

\* Dims(): the pair is returned as a two-element vector; Fall.Dims panics on
\* a nil D.
Dims ==
  /\ mdl.kind # "none" /\ ret.op = "none"
  /\ ret' = Call("dims", NilVec, NilVec, NilVec,
                 IF mdl.kind = "sim" THEN Returned(Col(BaseModelDims(heap, mdl)))
                 ELSE IF mdl.D = Nil THEN Panic
                 ELSE Returned(Col(FallDims(heap, mdl))))
  /\ UNCHANGED <<heap, mdl, ic, held, ctor, nmut, rnd>>

\* The caller takes the result of the last call (or recovers from its
\* panic) and goes on.
Consume ==
  /\ ret.op # "none"
  /\ ret' = NoRet
  /\ UNCHANGED <<heap, mdl, ic, held, ctor, nmut, rnd>>

\* NewInitCond(state, cov): CloneFromVec / CopySym into two fresh objects,
\* which the InitCond keeps.
NewInitCond ==
  /\ ic = NoInitCond /\ ret.op = "none"
  /\ heap' = [heap EXCEPT ![LocIcState] = heap[LocState], ![LocIcCov] = heap[LocCov]]
  /\ ic' = [state |-> LocIcState, cov |-> LocIcCov]
  /\ UNCHANGED <<mdl, held, ctor, nmut, ret, rnd>>

\* An accessor that hands out the internal pointer itself.
CloneFrom_Alias(h, src) ==
  IF src = Nil THEN [loc |-> Alloc(h), val |-> EmptyDense]
  ELSE [loc |-> src, val |-> h[src]]

\* What an accessor returns: a fresh object holding a copy of the object at
\* src, or a fresh empty matrix when src is nil.
CloneFrom(h, src) == [loc |-> Alloc(h), val |-> At(h, src)]

\* The accessor's result: the object at got.loc holds got.val, and the caller
\* holds a pointer to it.
Return(acc, got) ==
  /\ heap' = [heap EXCEPT ![got.loc] = got.val]
  /\ held' = held \cup {[acc |-> acc, loc |-> got.loc]}
  /\ UNCHANGED <<mdl, ic, ctor, nmut, ret, rnd>>

CanRead ==
  /\ ret.op = "none"
  /\ Cardinality(held) < MaxHeld
  /\ HasFree(heap, 1)

StateMatrix == mdl.kind = "sim" /\ CanRead /\ Return("StateMatrix", CloneFrom(heap, mdl.A))
StateCtlMatrix == mdl.kind = "sim" /\ CanRead /\ Return("StateCtlMatrix", CloneFrom(heap, mdl.B))
OutputMatrix == mdl.kind = "sim" /\ CanRead /\ Return("OutputMatrix", CloneFrom(heap, mdl.C))
OutputCtlMatrix == mdl.kind = "sim" /\ CanRead /\ Return("OutputCtlMatrix", CloneFrom(heap, mdl.D))
State == ic # NoInitCond /\ CanRead /\ Return("State", CloneFrom(heap, ic.state))
Cov == ic # NoInitCond /\ CanRead /\ Return("Cov", CloneFrom(heap, ic.cov))

\* The caller writes element (0, 0) of a matrix it holds a pointer to: one
\* of the matrices it passed to NewBaseModel, or a value an accessor
\* returned.
CallerLocs == {l \in {LocA, LocB, LocC, LocD} : heap[l] # NoObj} \cup {h.loc : h \in held}

Mutate ==
  /\ ret.op = "none" /\ nmut < MaxMut
  /\ \E l \in CallerLocs :
       /\ heap[l].r >= 1 /\ heap[l].c >= 1
       /\ heap' = [heap EXCEPT ![l].d[1][1] = 1 + (@ % 3)]
  /\ nmut' = nmut + 1
  /\ UNCHANGED <<mdl, ic, held, ctor, ret, rnd>>

\* Package rnd.
WeightsIn == {V(w) : w \in UNION {[1..l -> 0..MaxW] : l \in 0..MaxLenP}} \cup {NilVec}

CallRouletteDrawN ==
  /\ rnd.op = "none"
  /\ \E p \in WeightsIn, n \in -1..MaxN :
       \E ks \in [1..(IF n < 0 THEN 0 ELSE n) -> 0..(Grid - 1)] :
         LET res == RouletteDrawN(p, n, ks)
         IN  rnd' = [NoRnd EXCEPT !.op = "RouletteDrawN", !.p = p, !.n = n,
                       !.draws = ks, !.idx = res.idx, !.err = res.err,
                       !.panic = res.panic]
  /\ UNCHANGED <<heap, mdl, ic, held, ctor, nmut, ret>>

CallWithCovN ==
  /\ rnd.op = "none"
  /\ \E cov \in {Nil} \cup {l \in ArgLoc : heap[l] # NoObj}, n \in -1..MaxN,
        ok \in BOOLEAN :
       LET res == WithCovN(heap, cov, n, ok)
       IN  rnd' = [NoRnd EXCEPT !.op = "WithCovN", !.cov = cov, !.n = n,
                     !.shape = res.shape, !.err = res.err, !.panic = res.panic,
                     !.factorized = res.factorized, !.normals = res.normals]
  /\ UNCHANGED <<heap, mdl, ic, held, ctor, nmut, ret>>

ConsumeRnd ==
  /\ rnd.op # "none"
  /\ rnd' = NoRnd
  /\ UNCHANGED <<heap, mdl, ic, held, ctor, nmut, ret>>

\* ------------------------------------------------------------ initial states
\* The dimension invariant the data model states for matrices a, b, c, d
\* (b, d EmptyDense or NoObj when absent); no code computes it.
Absent(m) == m.r <= 0
ValidArgs(a, b, c, d) ==
  /\ a.r = a.c
  /\ c.c = a.r
  /\ ~Absent(b) => b.r = a.r
  /\ ~Absent(d) => d.r = c.r
  /\ (~Absent(b) /\ ~Absent(d)) => b.c = d.c

\* A symmetric n x n matrix.
SymMat(n, s) ==
  [r |-> n, c |-> n,
   d |-> [i \in 1..n |-> [j \in 1..n |-> 1 + ((s + i + j) % 3)]]]

\* The caller's objects: A, B (or none), C, D (or none), state, cov.
Objects(a, b, c, d, s) ==
  [l \in Loc |->
     CASE l = LocA -> a
       [] l = LocB -> b
       [] l = LocC -> c
       [] l = LocD -> d
       [] l = LocState -> [r |-> a.r, c |-> 1, d |-> [i \in 1..a.r |-> <<1 + ((i + s) % 2)>>]]
       [] l = LocCov -> SymMat(a.r, s)
       [] OTHER -> NoObj]

Fresh ==
  /\ mdl = NoModel /\ ic = NoInitCond /\ held = {}
  /\ ctor = ModelMats(heap, NoModel)
  /\ nmut = 0 /\ ret = NoRet /\ rnd = NoRnd

\* A is n x n, C is p x n, B is absent or n x m, D is absent or p x m.
Init ==
  /\ \E n \in 1..MaxDim, m \in 1..MaxDim, p \in 1..MaxDim, s \in 0..MaxSeed,
        hasB \in BOOLEAN, hasD \in BOOLEAN :
       heap = Objects(Mat(n, n, s), IF hasB THEN Mat(n, m, s + 1) ELSE NoObj,
                      Mat(p, n, s + 2), IF hasD THEN Mat(p, m, s + 3) ELSE NoObj, s)
  /\ Fresh

Next == NewBaseModel \/ NewFall \/ Propagate \/ Observe \/ Dims \/ Consume

Spec == Init /\ [][Next]_vars

\* Arguments of any shapes: nothing in Go constrains what a caller passes.
InitCreate ==
  /\ \E ar \in 1..MaxDim, ac \in 1..MaxDim, cr \in 1..MaxDim, cc \in 1..MaxDim,
        br \in 0..MaxDim, bc \in 1..MaxDim, dr \in 0..MaxDim, dc \in 1..MaxDim,
        s \in 0..MaxSeed :
       heap = Objects(Mat(ar, ac, s), IF br > 0 THEN Mat(br, bc, s + 1) ELSE NoObj,
                      Mat(cr, cc, s + 2), IF dr > 0 THEN Mat(dr, dc, s + 3) ELSE NoObj, s)
  /\ Fresh

NextCreate == NewBaseModel \/ NewFall \/ Dims \/ Consume

SpecCreate == InitCreate /\ [][NextCreate]_vars

\* Aliasing: a square system (n = m = p) with or without control (B and D).
InitAlias ==
  /\ \E n \in 1..MaxDim, ctl \in BOOLEAN :
       heap = Objects(Mat(n, n, 0), IF ctl THEN Mat(n, n, 1) ELSE NoObj,
                      Mat(n, n, 2), IF ctl THEN Mat(n, n, 3) ELSE NoObj, 0)
  /\ Fresh

\* The probe input of the aliasing runs: x of the state's length, no u, no q.
ProbeX == {x \in VecIn : Len(x.v) = heap[LocA].c /\ \A i \in 1..Len(x.v) : x.v[i] = 1 + (i % 2)}

ProbePropagate == PropagateOn(ProbeX, {NilVec}, {NilVec})
ProbeObserve == ObserveOn(ProbeX, {NilVec}, {NilVec})

NextAlias ==
  \/ NewBaseModel \/ NewInitCond
  \/ StateMatrix \/ StateCtlMatrix \/ OutputMatrix \/ OutputCtlMatrix
  \/ State \/ Cov
  \/ Mutate \/ ProbePropagate \/ ProbeObserve \/ Dims \/ Consume

SpecAlias == InitAlias /\ [][NextAlias]_vars

\* Package rnd is stateless: the caller's objects only supply covariances.
InitRnd ==
  /\ \E n \in 1..MaxDim :
       heap = Objects(Mat(n, n, 0), Mat(n, n, 1), Mat(n, n, 2), Mat(n, n, 3), 0)
  /\ Fresh

NextRnd == CallRouletteDrawN \/ CallWithCovN \/ ConsumeRnd

SpecRnd == InitRnd /\ [][NextRnd]_vars

\* ------------------------------------------------------------ properties
\* The dimensions of the model in the current state: n (state), p (output)
\* and, for a model that has B and D, m (control: the columns of B and D).
ValidModel == ValidArgs(At(heap, mdl.A), At(heap, mdl.B), At(heap, mdl.C), At(heap, mdl.D))
FullModel == mdl.B # Nil /\ mdl.D # Nil
StateDim == heap[mdl.A].r
OutputDim == heap[mdl.C].r
CtlDim == heap[mdl.B].c

\* M . x, and a + b, element by element.
Times(M, x) == [i \in 1..M.r |-> Dot(M.d[i], x, Len(x))]
Plus(a, b) == [i \in 1..Len(a) |-> a[i] + b[i]]

Succeeded(r) == ~r.panic /\ r.err = "" /\ ~r.val.nil
Rejected(r) == ~r.panic /\ r.err # "" /\ r.val.nil

\* C1: on a valid BaseModel with B and D of m columns, Propagate or Observe
\* with x of length n and a present u whose length is not m returns an error
\* and no vector, and does not panic.
C1_ControlLengthRejected ==
  ( /\ ret.op \in {"propagate", "observe"} /\ mdl.kind = "sim"
    /\ ValidModel /\ FullModel
    /\ Len(ret.x.v) = StateDim
    /\ ~ret.u.nil /\ Len(ret.u.v) # CtlDim )
  => Rejected(ret)

\* C2: on a valid BaseModel with B and D of m columns, Observe with x of
\* length n, u of length m and no r succeeds and returns C.x + D.u, of
\* length p.
C2_ObserveAffine ==
  ( /\ ret.op = "observe" /\ mdl.kind = "sim"
    /\ ValidModel /\ FullModel
    /\ Len(ret.x.v) = StateDim
    /\ ~ret.u.nil /\ Len(ret.u.v) = CtlDim
    /\ ret.q.nil )
  => /\ Succeeded(ret)
     /\ Len(ret.val.v) = OutputDim
     /\ ret.val.v = Plus(Times(heap[mdl.C], ret.x.v), Times(heap[mdl.D], ret.u.v))

\* What C3 says Propagate returns without a control vector: A.x, plus q when
\* q is present and of length n.
AxPlusQ ==
  IF ~ret.q.nil /\ Len(ret.q.v) = StateDim
  THEN Plus(Times(heap[mdl.A], ret.x.v), ret.q.v)
  ELSE Times(heap[mdl.A], ret.x.v)

PropagateNoControl ==
  ( /\ ret.op = "propagate" /\ ValidModel
    /\ Len(ret.x.v) = StateDim /\ ret.u.nil )
  => /\ Succeeded(ret)
     /\ Len(ret.val.v) = StateDim
     /\ ret.val.v = AxPlusQ

\* C3: on every valid model, BaseModel or Fall, that has all four matrices,
\* Propagate with x of length n and no u succeeds and returns the length-n
\* vector A.x, plus q when q is present and of length n; a q of another
\* length is ignored.
C3_PropagateNoControl == FullModel => PropagateNoControl

\* The same statement for BaseModel alone, with or without B and D: it holds.
BaseModelPropagateNoControl == mdl.kind = "sim" => PropagateNoControl

\* C4: a model exists only for arguments that satisfy the dimension
\* invariant, and create returns an error and no model for the others.
C4_CreateValidates ==
  /\ mdl.kind # "none" => ValidModel
  /\ ret.op = "create" =>
       \/ ret.err = "" /\ mdl.kind # "none" /\ ValidModel
       \/ ret.err # "" /\ mdl.kind = "none"

\* C5: the matrices of a model stay what they were at construction, whatever
\* the caller does to the objects it passed.
C5_MatricesImmutable ==
  mdl.kind # "none" => ModelMats(heap, mdl) = ctor

\* The internal object an accessor reads (Nil when the model has none).
Internal(acc) ==
  CASE acc = "StateMatrix" -> mdl.A
    [] acc = "StateCtlMatrix" -> mdl.B
    [] acc = "OutputMatrix" -> mdl.C
    [] acc = "OutputCtlMatrix" -> mdl.D
    [] acc = "State" -> ic.state
    [] acc = "Cov" -> ic.cov

InternalLocs == {mdl.A, mdl.B, mdl.C, mdl.D, ic.state, ic.cov} \ {Nil}

\* C6: an accessor returns the internal value (an empty matrix for an absent
\* B or D) and leaves the internal objects and the earlier results as they
\* were; a write to a returned value changes no internal object and no other
\* returned value.
C6_AccessorsCopy ==
  [][ /\ \A h \in held' \ held :
           /\ heap'[h.loc] = (IF Internal(h.acc) = Nil THEN EmptyDense
                              ELSE heap[Internal(h.acc)])
           /\ \A l \in InternalLocs : heap'[l] = heap[l]
           /\ \A g \in held : heap'[g.loc] = heap[g.loc]
      /\ \A h \in held :
           heap'[h.loc] # heap[h.loc] =>
             /\ \A l \in InternalLocs : heap'[l] = heap[l]
             /\ \A g \in held \ {h} : heap'[g.loc] = heap[g.loc]
    ]_vars

\* C6 witness: two results of the same accessor, one of them written to by
\* the caller, the other still equal to the internal value.
C6_Witness ==
  \E h \in held, g \in held :
    /\ h.acc = g.acc /\ h.loc # g.loc
    /\ heap[h.loc] # heap[g.loc]
    /\ heap[g.loc] = heap[Internal(g.acc)]

\* The weights and draws of the last RouletteDrawN call.
IsDraw == rnd.op = "RouletteDrawN"
NonEmpty == ~rnd.p.nil /\ Len(rnd.p.v) >= 1
Total == CumSumTo(rnd.p.v, Len(rnd.p.v))
\* cdf[i] > x for the 0-based index i and the draw x = (k / Grid) * total.
Above(i, k) == CumSumTo(rnd.p.v, i + 1) * Grid > k * Total

\* C7: with every weight zero and k >= 1, RouletteDrawN fails with an error
\* or returns k indices in 0..L-1.
C7_ZeroWeightsHandled ==
  ( /\ IsDraw /\ NonEmpty /\ rnd.n >= 1
    /\ \A i \in 1..Len(rnd.p.v) : rnd.p.v[i] = 0 )
  => /\ ~rnd.panic
     /\ \/ rnd.err # ""
        \/ /\ ~rnd.idx.nil /\ Len(rnd.idx.v) = rnd.n
           /\ \A d \in 1..rnd.n : rnd.idx.v[d] \in 0..(Len(rnd.p.v) - 1)

\* C8: with non-negative weights of positive total and k >= 0, RouletteDrawN
\* returns k indices, the d-th being the smallest index whose cdf exceeds the
\* d-th draw: a valid index of positive weight.
C8_RouletteDraw ==
  ( IsDraw /\ NonEmpty /\ Total > 0 /\ rnd.n >= 0 )
  => /\ ~rnd.panic /\ rnd.err = "" /\ ~rnd.idx.nil
     /\ Len(rnd.idx.v) = rnd.n
     /\ \A d \in 1..rnd.n :
          LET i == rnd.idx.v[d]
          IN  /\ i \in 0..(Len(rnd.p.v) - 1)
              /\ Above(i, rnd.draws[d])
              /\ \A j \in 0..(i - 1) : ~Above(j, rnd.draws[d])
              /\ rnd.p.v[i + 1] > 0

\* C8 witness: weights with a zero first, two draws that gave different
\* indices.
C8_Witness ==
  /\ IsDraw /\ NonEmpty /\ rnd.n >= 2 /\ rnd.err = "" /\ ~rnd.panic
  /\ rnd.p.v[1] = 0 /\ Total > 0
  /\ rnd.idx.v[1] # rnd.idx.v[2]

\* C9: WithCovN with k <= 1 returns an error and no samples, having
\* factorized nothing and drawn nothing, and leaves the covariance as it was.
C9_TooFewSamples ==
  [][ (rnd'.op = "WithCovN" /\ rnd.op = "none" /\ rnd'.n <= 1)
      => /\ rnd'.err # "" /\ ~rnd'.panic
         /\ rnd'.shape = << >>
         /\ ~rnd'.factorized /\ rnd'.normals = 0
         /\ heap' = heap
    ]_vars

\* C9 witness: one sample asked of a real covariance, and a non-positive
\* count with a nil covariance, are both answered with an error.
C9_Witness ==
  /\ rnd.op = "WithCovN" /\ rnd.err # ""
  /\ rnd.n = 1 /\ rnd.cov = LocCov

\* C10: RouletteDrawN with nil or empty weights returns an error and no
\* indices and does not panic, whatever k is.
C10_EmptyWeightsRejected ==
  ( IsDraw /\ (rnd.p.nil \/ Len(rnd.p.v) = 0) )
  => ~rnd.panic /\ rnd.err # "" /\ rnd.idx.nil

\* C10 witness: empty (not nil) weights and a negative k, answered with an
\* error.
C10_Witness ==
  /\ IsDraw /\ ~rnd.p.nil /\ Len(rnd.p.v) = 0 /\ rnd.n < 0
  /\ rnd.err # "" /\ ~rnd.panic

====
